---- MODULE Spec2Model ----
(***************************************************************************)
(* The student registry of comp3000bot (src/comp3000bot/manage_students.py)*)
(* as a state machine: StudentInformation objects on a heap, the two       *)
(* bidicts of StudentManager, and the command handlers of ManageStudents.  *)
(* The `secret` command is a coroutine: it is split at its await points,   *)
(* so that other handlers interleave with it as the event loop allows.     *)
(* The snapshot file, the autosave task and the life of the process        *)
(* (start, exit, kill) are modelled for the persistence of the manager.    *)
(***************************************************************************)
EXTENDS Integers, Sequences, FiniteSets, TLC

\* ------------------------------------------------------------------ bounds
\* student numbers are 1..MaxNumber
MaxNumber == 2
\* Discord members are identified by the ids 1..MaxMembers
MaxMembers == 2
\* how many StudentInformation objects are ever kept (each takes a fresh token)
MaxStudents == 2
\* the members 1..MaxRegistrants register in the runs that restart the process
MaxRegistrants == 1
\* an attached CSV file has at most MaxRows rows
MaxRows == 2

\* -------------------------------------------------------- program constants
max_name_len == 32

None == 0
NoName == <<>>

Numbers == 1..MaxNumber
\* the kinds of name an operator may type: one that fits Discord's nickname
\* limit (1) and one that is a character too long (2)
Variants == {1, 2}
MemberIds == 1..MaxMembers
Registrants == 1..MaxRegistrants

\* discord.Member, as far as the handlers read it: name and id
Member(i) == [name |-> <<i>>, id |-> i]

\* The name and email arguments of create_student, for a number and a variant.
StudentName(n, v) ==
    IF v = 1 THEN <<v, v>> ELSE [i \in 1..(max_name_len + v - 1) |-> v]
StudentEmail(n, v) == <<n, v>>
NoEmail == <<>>

\* token_hex(32): tokens are 256 bits of randomness, so every call yields a
\* token never seen before; the k-th object kept by the manager carries token k.
generate_new_secret(k) == k

\* A StudentInformation that nothing refers to any more
Freed == [name |-> NoName, number |-> None, email |-> NoEmail,
          discord_name |-> NoName, discord_id |-> None,
          is_registered |-> FALSE, secret |-> None]

\* ------------------------------------------------ StatusMessage and Polls
\* config.STATUS_MESSAGES, the statuses an operator passes to set_status, and
\* no status (None or the empty string)
STATUS_MESSAGES == {"Ready for action!", "Enjoy the course!"}
ExplicitStatuses == {"Back soon", "Exam today"}
NoStatus == ""

\* The coroutines that call _set_status
StatusTasks == {"_auto_change_status", "on_ready", "set_status"}

\* StatusMessage.__init__, with the presence of a bot that has set none and
\* no change_presence in flight
StatusMessage ==
    [auto_change_status |-> TRUE, presence |-> NoStatus,
     pending |-> [t \in StatusTasks |-> NoStatus]]

\* Polls.options, an emoji that is no option, the bot and the users who react
MaxVoters == 3
ThumbsUp == "thumbs_up"
ThumbsDown == "thumbs_down"
Tada == "tada"
options == {ThumbsUp, ThumbsDown}
Emojis == <<ThumbsUp, ThumbsDown, Tada>>
BotUser == 0
Voters == 1..MaxVoters

\* No poll is running
NoPoll == [open |-> FALSE, reactions |-> [i \in 1..Len(Emojis) |-> {}]]

VARIABLES
    heap,                \* the StudentInformation objects, by object id
    students,            \* StudentManager.students: bidict secret -> object
    registered_students, \* StudentManager.registered_students: bidict member id -> object
    tasks,               \* per member, the `secret` coroutine in flight
    last,                \* the handler step that ran last: its inputs, its outcome
                         \* and the calls it made on the Discord server
    disk,                \* the file StudentManager.get_filename() names
    proc,                \* the bot process: "running" or "down"
    autosave,            \* whether the _autosave task of ManageStudents is alive
    instances,           \* Singleton._instances[Students]: the roster the polls read
    status_message,      \* the StatusMessage cog, the bot's presence and the
                         \* change_presence calls in flight
    poll                 \* the poll message of a running `poll` command

vars == <<heap, students, registered_students, tasks, last, disk, proc, autosave,
          instances, status_message, poll>>

\* your_secret as typed by a user: a token issued so far, or one never issued (0)
Tokens == 0..Len(heap)

\* ------------------------------------------------------ StudentInformation
StudentInformation(name, number, email, k) ==
    [name |-> name, number |-> number, email |-> email,
     discord_name |-> NoName, discord_id |-> None,
     is_registered |-> FALSE, secret |-> generate_new_secret(k)]

register(student, member) ==
    [student EXCEPT !.discord_name = member.name,
                    !.discord_id = member.id,
                    !.is_registered = TRUE]

\* A faulty reset: the secret is cleared with the registration fields.
reset_clears_secret(student) ==
    [student EXCEPT !.discord_name = NoName,
                    !.discord_id = None,
                    !.is_registered = FALSE,
                    !.secret = None]

\* A faulty reset: the flag is cleared, the Discord identity stays.
reset_keeps_identity(student) == [student EXCEPT !.is_registered = FALSE]

reset(student) ==
    [student EXCEPT !.discord_name = NoName,
                    !.discord_id = None,
                    !.is_registered = FALSE]

\* ------------------------------------------------------------------ bidict
\* A bidict is a set of <<key, object id>> items, one-to-one. Its values are
\* StudentInformation objects, which hash and compare by number alone.
bidict_keys(b) == {p[1] : p \in b}
bidict_has(b, k) == \E p \in b : p[1] = k
bidict_get(b, k) == (CHOOSE p \in b : p[1] = k)[2]
inverse_has(b, h, number) == \E p \in b : h[p[2]].number = number
inverse_get(b, h, number) == (CHOOSE p \in b : h[p[2]].number = number)[1]
bidict_pop(b, k) == {p \in b : p[1] # k}

ON_DUP_DEFAULT == [key |-> "DROP_OLD", val |-> "RAISE", kv |-> "RAISE"]
ON_DUP_DROP_OLD == [key |-> "DROP_OLD", val |-> "DROP_OLD", kv |-> "DROP_OLD"]

bidict_write(b, h, k, v) ==
    {p \in b : p[1] # k /\ h[p[2]].number # h[v].number} \cup {<<k, v>>}

bidict_put(b, h, k, v, on_dup) ==
    LET isdupkey == bidict_has(b, k)
        isdupval == inverse_has(b, h, h[v].number)
        raise == [raised |-> TRUE, map |-> b]
        noop == [raised |-> FALSE, map |-> b]
        write == [raised |-> FALSE, map |-> bidict_write(b, h, k, v)]
    IN  IF isdupkey /\ isdupval
        THEN IF inverse_get(b, h, h[v].number) = k THEN noop
             ELSE IF on_dup.kv = "RAISE" THEN raise ELSE write
        ELSE IF isdupkey
        THEN IF on_dup.key = "RAISE" THEN raise ELSE write
        ELSE IF isdupval
        THEN IF on_dup.val = "RAISE" THEN raise ELSE write
        ELSE write

\* A faulty __setitem__: a plain dict, which takes equal values under two keys.
setitem_plain_dict(b, h, k, v) ==
    [raised |-> FALSE, map |-> {p \in b : p[1] # k} \cup {<<k, v>>}]

bidict_setitem(b, h, k, v) == bidict_put(b, h, k, v, ON_DUP_DEFAULT)

\* A faulty forceput: the item is stored as in a plain dict, and the item that
\* holds an equal value under another key stays.
forceput_keeps_old_item(b, h, k, v) ==
    [raised |-> FALSE, map |-> {p \in b : p[1] # k} \cup {<<k, v>>}]

bidict_forceput(b, h, k, v) == bidict_put(b, h, k, v, ON_DUP_DROP_OLD)

\* ---------------------------------------------------------- StudentManager
\* A faulty add_student: the overwrite flag is not read, every add is a forceput.
add_student_always_overwrites(h, st, name, number, email, overwrite) ==
    LET o == Len(h) + 1
        h1 == Append(h, StudentInformation(name, number, email, o))
        put == bidict_forceput(st, h1, h1[o].secret, o)
    IN  [raised |-> FALSE, heap |-> h1, students |-> put.map, student |-> o]

\* A faulty add_student: the record is stored under its number, not its secret.
add_student_keyed_by_number(h, st, name, number, email, overwrite) ==
    LET o == Len(h) + 1
        h1 == Append(h, StudentInformation(name, number, email, o))
        put == IF overwrite
               THEN bidict_forceput(st, h1, h1[o].number, o)
               ELSE bidict_setitem(st, h1, h1[o].number, o)
    IN  IF put.raised
        THEN [raised |-> TRUE, heap |-> h, students |-> st, student |-> None]
        ELSE [raised |-> FALSE, heap |-> h1, students |-> put.map, student |-> o]

add_student(h, st, name, number, email, overwrite) ==
    LET o == Len(h) + 1
        h1 == Append(h, StudentInformation(name, number, email, o))
        put == IF overwrite
               THEN bidict_forceput(st, h1, h1[o].secret, o)
               ELSE bidict_setitem(st, h1, h1[o].secret, o)
    IN  IF put.raised
        THEN [raised |-> TRUE, heap |-> h, students |-> st, student |-> None]
        ELSE [raised |-> FALSE, heap |-> h1, students |-> put.map, student |-> o]

\* A faulty remove_student: a number that is not in students is passed over
\* in silence.
remove_student_ignores_missing(h, st, rs, number) ==
    LET rs1 == IF inverse_has(rs, h, number)
               THEN bidict_pop(rs, inverse_get(rs, h, number))
               ELSE rs
    IN  IF ~inverse_has(st, h, number)
        THEN [raised |-> FALSE, students |-> st, registered_students |-> rs1,
              student |-> None]
        ELSE LET secret == inverse_get(st, h, number)
             IN  [raised |-> FALSE, students |-> bidict_pop(st, secret),
                  registered_students |-> rs1, student |-> bidict_get(st, secret)]

remove_student(h, st, rs, number) ==
    IF ~inverse_has(st, h, number)
    THEN [raised |-> TRUE, students |-> st, registered_students |-> rs,
          student |-> None]
    ELSE LET secret == inverse_get(st, h, number)
             rs1 == IF inverse_has(rs, h, number)
                    THEN bidict_pop(rs, inverse_get(rs, h, number))
                    ELSE rs
         IN  [raised |-> FALSE, students |-> bidict_pop(st, secret),
              registered_students |-> rs1, student |-> bidict_get(st, secret)]

reset_student(h, st, number) ==
    IF ~inverse_has(st, h, number)
    THEN [raised |-> TRUE, heap |-> h, student |-> None]
    ELSE LET student == bidict_get(st, inverse_get(st, h, number))
         IN  [raised |-> FALSE, heap |-> [h EXCEPT ![student] = reset(@)],
              student |-> student]

register_student(h, rs, student, member) ==
    LET h1 == [h EXCEPT ![student] = register(@, member)]
        put == bidict_setitem(rs, h1, member.id, student)
    IN  [raised |-> put.raised, heap |-> h1, registered_students |-> put.map]

\* A faulty student_by_secret: a miss falls back to a record of the roster
\* instead of raising.
student_by_secret_with_default(st, secret) ==
    IF bidict_has(st, secret)
    THEN [raised |-> FALSE, student |-> bidict_get(st, secret)]
    ELSE IF st # {}
    THEN [raised |-> FALSE, student |-> (CHOOSE p \in st : TRUE)[2]]
    ELSE [raised |-> TRUE, student |-> None]

student_by_secret(st, secret) ==
    IF bidict_has(st, secret)
    THEN [raised |-> FALSE, student |-> bidict_get(st, secret)]
    ELSE [raised |-> TRUE, student |-> None]

student_by_member(rs, member) ==
    IF bidict_has(rs, member.id)
    THEN [raised |-> FALSE, student |-> bidict_get(rs, member.id)]
    ELSE [raised |-> TRUE, student |-> None]

\* ------------------------------------------------------------- persistence
\* The file of get_filename(), as far as open and pickle.load tell files
\* apart: kind "missing" (no such file), "unreadable" (bytes that are no
\* pickle), "truncated" (a proper prefix of a pickle: it lacks the closing
\* STOP opcode) and "pickle" (pickle.load returns an object of class `type`).
NoFile ==
    [kind |-> "missing", type |-> "", memo |-> <<>>, students |-> {},
     registered_students |-> {}]
Unloadable(kind) == [NoFile EXCEPT !.kind = kind]

\* A pickle of comp3000bot.students.Students, the class that keeps its
\* snapshot under the same file name (students.py l.77)
StudentsPickle == [NoFile EXCEPT !.kind = "pickle", !.type = "Students"]

\* the position of object o among the objects S, in order of object id
Rank(S, o) == Cardinality({x \in S : x <= o})

\* A faulty pickle.dump: registered_students is left out of the pickle.
pickle_dump_students_only(h, st, rs) ==
    LET S == {p[2] : p \in st}
    IN  [kind |-> "pickle", type |-> "StudentManager",
         memo |-> [i \in 1..Cardinality(S) |-> h[CHOOSE o \in S : Rank(S, o) = i]],
         students |-> {<<p[1], Rank(S, p[2])>> : p \in st},
         registered_students |-> {}]

\* pickle.dump(self, f): every StudentInformation the two bidicts reach is
\* written once, into the memo, and the bidicts refer to memo entries, so an
\* object both bidicts hold is one object in the pickle.
pickle_dump(h, st, rs) ==
    LET S == {p[2] : p \in st \cup rs}
    IN  [kind |-> "pickle", type |-> "StudentManager",
         memo |-> [i \in 1..Cardinality(S) |-> h[CHOOSE o \in S : Rank(S, o) = i]],
         students |-> {<<p[1], Rank(S, p[2])>> : p \in st},
         registered_students |-> {<<p[1], Rank(S, p[2])>> : p \in rs}]

\* pickle.load(f) of a "pickle" file: the memo entries become fresh objects,
\* the i-th of them object i of a heap of n objects.
pickle_load(file, n) ==
    [type |-> file.type,
     heap |-> [o \in 1..n |-> IF o <= Len(file.memo) THEN file.memo[o] ELSE Freed],
     students |-> file.students,
     registered_students |-> file.registered_students]

\* A StudentManager() as __init__ leaves it, in a heap of n freed objects
EmptyManager(n) ==
    [heap |-> [o \in 1..n |-> Freed], students |-> {}, registered_students |-> {}]

from_disk(file, n) ==
    LET obj == pickle_load(file, n)
        fail(e) == [raised |-> TRUE, error |-> e, heap |-> EmptyManager(n).heap,
                    students |-> {}, registered_students |-> {}]
    IN  IF file.kind = "missing" THEN fail("FileNotFoundError")
        ELSE IF file.kind # "pickle" THEN fail("UnpicklingError")
        ELSE IF obj.type # "StudentManager" THEN fail("AssertionError")
        ELSE [raised |-> FALSE, error |-> "", heap |-> obj.heap,
              students |-> obj.students,
              registered_students |-> obj.registered_students]

\* A faulty create_or_load: what from_disk raises is not caught.
create_or_load_propagates(file, n) ==
    LET r == from_disk(file, n)
    IN  [raised |-> r.raised, loaded |-> ~r.raised, heap |-> r.heap,
         students |-> r.students, registered_students |-> r.registered_students]

create_or_load(file, n) ==
    LET r == from_disk(file, n)
    IN  IF r.raised
        THEN [raised |-> FALSE, loaded |-> FALSE, heap |-> EmptyManager(n).heap,
              students |-> {}, registered_students |-> {}]
        ELSE [raised |-> FALSE, loaded |-> TRUE, heap |-> r.heap,
              students |-> r.students,
              registered_students |-> r.registered_students]

\* A faulty to_disk: a snapshot that is already there is patched, not
\* replaced: the students bidict is written, the registered_students of the
\* file are kept.
to_disk_patches(h, st, rs, file, fault) ==
    IF fault = "open" THEN [raised |-> TRUE, disk |-> file]
    ELSE IF fault = "write" THEN [raised |-> TRUE, disk |-> Unloadable("truncated")]
    ELSE IF file.kind = "pickle" /\ file.type = "StudentManager"
    THEN [raised |-> FALSE, disk |-> pickle_dump(h, st, {})]
    ELSE [raised |-> FALSE, disk |-> pickle_dump(h, st, rs)]

\* to_disk. fault says where the operating system fails the write, if it
\* does: "open" (open(fname, 'wb+') raises, the file is untouched) or "write"
\* (open has emptied the file, pickle.dump raises before the pickle is
\* complete).
to_disk(h, st, rs, file, fault) ==
    IF fault = "open" THEN [raised |-> TRUE, disk |-> file]
    ELSE IF fault = "write" THEN [raised |-> TRUE, disk |-> Unloadable("truncated")]
    ELSE [raised |-> FALSE, disk |-> pickle_dump(h, st, rs)]

\* ---------------------------------------------------------------- CSV
\* Text is a sequence of characters: the digits 0..9 are themselves, Letter
\* stands for any character that is no digit, Space for ' '.
Letter == 10
Space == 11

\* int(text): the number the digits spell, ValueError for anything else
RECURSIVE int_value(_)
int_value(t) ==
    IF t = <<>> THEN 0 ELSE 10 * int_value(SubSeq(t, 1, Len(t) - 1)) + t[Len(t)]

int(t) ==
    IF t = <<>> \/ (\E i \in 1..Len(t) : t[i] \notin 0..9)
    THEN [raised |-> TRUE, value |-> None]
    ELSE [raised |-> FALSE, value |-> int_value(t)]

\* The rows csv.reader yields for the lines an operator may attach: a row
\* `fname, lname, email, number` for number n, one whose number is no
\* number, and one with a column missing.
GoodRow(n) == << <<Letter>>, <<Letter, n>>, <<n, Letter>>, <<n>> >>
BadNumberRow == << <<Letter>>, <<Letter>>, <<Letter>>, <<Letter>> >>
ShortRow == << <<Letter>>, <<Letter>>, <<1>> >>
CsvRows == {GoodRow(n) : n \in Numbers} \cup {BadNumberRow, ShortRow}
CsvFiles == UNION {[1..k -> CsvRows] : k \in 0..MaxRows}

\* Nothing was sent / a text with a count in it
NoMessage == [text |-> "", count |-> 0]

\* The body of the loop of populate_from_csv_file, row by row. Unpacking a
\* row that has not four fields raises ValueError outside the try: the loop
\* ends there, with the rows before it added.
RECURSIVE import_rows(_, _, _, _, _, _)
import_rows(h, st, rows, overwrite, success_count, failed_count) ==
    IF rows = <<>>
    THEN [raised |-> FALSE, heap |-> h, students |-> st,
          success_count |-> success_count, failed_count |-> failed_count]
    ELSE IF Len(Head(rows)) # 4
    THEN [raised |-> TRUE, heap |-> h, students |-> st,
          success_count |-> success_count, failed_count |-> failed_count]
    ELSE LET row == Head(rows)
             name == row[1] \o <<Space>> \o row[2]
             number == int(row[4])
             r == add_student(h, st, name, number.value, row[3], overwrite)
         IN  IF number.raised \/ r.raised
             THEN import_rows(h, st, Tail(rows), overwrite,
                              success_count, failed_count + 1)
             ELSE import_rows(r.heap, r.students, Tail(rows), overwrite,
                              success_count + 1, failed_count)

\* populate_from_csv_file. csv.reader(fp) is an iterator: `reader[1:]` raises
\* TypeError before any row is read. The method returns nothing; it sends
\* one message, with the failed count if there is one and with the success
\* count otherwise.
populate_from_csv_file(h, st, fp, has_header, overwrite) ==
    LET r == import_rows(h, st, fp, overwrite, 0, 0)
    IN  IF has_header
        THEN [raised |-> TRUE, heap |-> h, students |-> st, success_count |-> 0,
              failed_count |-> 0, sent |-> NoMessage, returned |-> None]
        ELSE [raised |-> r.raised, heap |-> r.heap, students |-> r.students,
              success_count |-> r.success_count, failed_count |-> r.failed_count,
              sent |-> IF r.raised THEN NoMessage
                       ELSE IF r.failed_count > 0
                       THEN [text |-> "Failed to add", count |-> r.failed_count]
                       ELSE [text |-> "Added", count |-> r.success_count],
              returned |-> None]

csv_header == <<"name", "number", "email", "discord_name", "secret">>
csv_row(student) ==
    <<student.name, student.number, student.email, student.discord_name,
      student.secret>>

\* no file was made
NoCsv == [header |-> <<>>, rows |-> <<>>]

\* to_csv_file: the header and a row for each value of students, in the
\* order of the dict, which is the order the objects were created in
to_csv_file(h, st) ==
    LET S == {p[2] : p \in st}
    IN  [header |-> csv_header,
         rows |-> [i \in 1..Cardinality(S) |->
                      csv_row(h[CHOOSE o \in S : Rank(S, o) = i])]]

\* ------------------------------------------------- Students (students.py)
\* Singleton._instances has no Students yet
NoInstance == [exists |-> FALSE, memo |-> <<>>, students |-> {},
               registered_students |-> {}]

\* Students(): a Students object as __init__ leaves it
EmptyStudents == [NoInstance EXCEPT !.exists = TRUE]

\* Students._from_disk: the object in the file, if it is a Students
Students_from_disk(file) ==
    IF file.kind = "missing" THEN [raised |-> TRUE, error |-> "FileNotFoundError",
                                   instance |-> NoInstance]
    ELSE IF file.kind # "pickle" THEN [raised |-> TRUE, error |-> "UnpicklingError",
                                       instance |-> NoInstance]
    ELSE IF file.type # "Students" THEN [raised |-> TRUE, error |-> "TypeError",
                                         instance |-> NoInstance]
    ELSE [raised |-> FALSE, error |-> "",
          instance |-> [exists |-> TRUE, memo |-> file.memo,
                        students |-> file.students,
                        registered_students |-> file.registered_students]]

\* Students.factory: the instance there is, or the one in the file, or a
\* new one when there is no file; any other exception of _from_disk is not
\* caught.
factory(inst, file) ==
    LET r == Students_from_disk(file)
    IN  IF inst.exists THEN [raised |-> FALSE, instance |-> inst]
        ELSE IF ~r.raised THEN [raised |-> FALSE, instance |-> r.instance]
        ELSE IF r.error = "FileNotFoundError"
        THEN [raised |-> FALSE, instance |-> EmptyStudents]
        ELSE [raised |-> TRUE, instance |-> inst]

\* ---------------------------------------------------------- ManageStudents
Idle == [pc |-> "idle", student |-> None, name |-> NoName]

\* What a handler step did: the command and its arguments, the student it
\* worked on, how it ended, and the server calls that took effect in it
\* (the nickname set by member.edit, the role granted by member.add_roles).
Outcome(op, who, key, overwrite, student, result) ==
    [op |-> op, arg |-> who, key |-> key, overwrite |-> overwrite,
     student |-> student, result |-> result, nick |-> NoName, role |-> FALSE]

\* The objects something still refers to: the two bidicts, the coroutines in
\* flight and the student the last handler returned. The others are freed.
Live(st, rs, ts, l) ==
    {p[2] : p \in st} \cup {p[2] : p \in rs}
        \cup {ts[m].student : m \in MemberIds} \cup {l.student}

collect(h, live) == [o \in 1..Len(h) |-> IF o \in live THEN h[o] ELSE Freed]

\* A command handler runs in the running process and writes no file
Running ==
    /\ proc = "running"
    /\ UNCHANGED <<disk, proc, autosave, instances, status_message, poll>>

Init ==
    /\ heap = <<>>
    /\ students = {}
    /\ registered_students = {}
    /\ tasks = [m \in MemberIds |-> Idle]
    /\ last = Outcome("init", None, None, FALSE, None, "ok")
    /\ disk = NoFile
    /\ proc = "running"
    /\ autosave = TRUE
    /\ instances = NoInstance
    /\ status_message = StatusMessage
    /\ poll = NoPoll

create_student(n, v, overwrite) ==
    LET r == add_student(heap, students, StudentName(n, v), n,
                         StudentEmail(n, v), overwrite)
    IN  /\ Running
        /\ r.raised \/ Len(heap) < MaxStudents
        /\ students' = r.students
        /\ last' = Outcome("create_student", n, None, overwrite, r.student,
                           IF r.raised THEN "error" ELSE "ok")
        /\ UNCHANGED <<registered_students, tasks>>
        /\ heap' = collect(r.heap, Live(students', registered_students', tasks', last'))

cmd_remove_student(n) ==
    LET r == remove_student(heap, students, registered_students, n)
    IN  /\ Running
        /\ students' = r.students
        /\ registered_students' = r.registered_students
        /\ last' = Outcome("remove_student", n, None, FALSE, r.student,
                           IF r.raised THEN "error" ELSE "ok")
        /\ UNCHANGED tasks
        /\ heap' = collect(heap, Live(students', registered_students', tasks', last'))

cmd_reset_student(n) ==
    LET r == reset_student(heap, students, n)
    IN  /\ Running
        /\ last' = Outcome("reset_student", n, None, FALSE, r.student,
                           IF r.raised THEN "error" ELSE "ok")
        /\ UNCHANGED <<students, registered_students, tasks>>
        /\ heap' = collect(r.heap, Live(students', registered_students', tasks', last'))

\* `secret`, from its entry to the first await that follows the checks (one
\* coroutine in flight per member): the
\* guild and member lookups, student_by_secret, the is_registered check and
\* the shortening of the name. env says whether the bot is in a guild and
\* whether the author is a member of it.
secret_check(m, your_secret, env) ==
    LET found == student_by_secret(students, your_secret)
        student == found.student
        name == heap[student].name
        short == IF Len(name) > max_name_len
                 THEN SubSeq(name, 1, max_name_len) ELSE name
        fail(key, result) ==
            /\ last' = Outcome("secret", m, key, FALSE, None, result)
            /\ UNCHANGED tasks
    IN  /\ Running
        /\ tasks[m].pc = "idle"
        /\ IF env = "no_guild" THEN fail(None, "no_guild")
           ELSE IF env = "no_member" THEN fail(None, "no_member")
           ELSE IF found.raised THEN fail(your_secret, "incorrect_secret")
           ELSE IF heap[student].is_registered
           THEN fail(your_secret, "already_registered")
           ELSE /\ tasks' = [tasks EXCEPT ![m] =
                        [pc |-> "edit", student |-> student, name |-> short]]
                /\ last' = Outcome("secret", m, your_secret, FALSE, student,
                                   IF Len(name) > max_name_len
                                   THEN "shortened" ELSE "checked")
        /\ UNCHANGED <<students, registered_students>>
        /\ heap' = collect(heap, Live(students', registered_students', tasks', last'))

\* A faulty member.edit step: the nickname is the whole name of the record,
\* not the name cut to max_name_len.
secret_edit_whole_name(m, ok) ==
    /\ Running
    /\ tasks[m].pc = "edit"
    /\ IF ok
       THEN /\ tasks' = [tasks EXCEPT ![m].pc = "add_roles"]
            /\ last' = [Outcome("secret_edit", m, None, FALSE,
                                tasks[m].student, "ok")
                        EXCEPT !.nick = heap[tasks[m].student].name]
       ELSE /\ tasks' = [tasks EXCEPT ![m] = Idle]
            /\ last' = Outcome("secret_edit", m, None, FALSE,
                               tasks[m].student, "error")
    /\ UNCHANGED <<students, registered_students>>
    /\ heap' = collect(heap, Live(students', registered_students', tasks', last'))

\* await member.edit(nick=name) returns or raises
secret_edit(m, ok) ==
    /\ Running
    /\ tasks[m].pc = "edit"
    /\ IF ok
       THEN /\ tasks' = [tasks EXCEPT ![m].pc = "add_roles"]
            /\ last' = [Outcome("secret_edit", m, None, FALSE,
                                tasks[m].student, "ok")
                        EXCEPT !.nick = tasks[m].name]
       ELSE /\ tasks' = [tasks EXCEPT ![m] = Idle]
            /\ last' = Outcome("secret_edit", m, None, FALSE,
                               tasks[m].student, "error")
    /\ UNCHANGED <<students, registered_students>>
    /\ heap' = collect(heap, Live(students', registered_students', tasks', last'))

\* A faulty end of `secret`: register_student runs whether add_roles returned
\* or raised.
secret_add_roles_registers_anyway(m, ok) ==
    LET student == tasks[m].student
        r == register_student(heap, registered_students, student, Member(m))
    IN  /\ Running
        /\ tasks[m].pc = "add_roles"
        /\ tasks' = [tasks EXCEPT ![m] = Idle]
        /\ UNCHANGED students
        /\ registered_students' = r.registered_students
        /\ last' = [Outcome("secret_add_roles", m, None, FALSE, student,
                            IF ~ok THEN "error"
                            ELSE IF r.raised THEN "raised" ELSE "registered")
                    EXCEPT !.role = ok]
        /\ heap' = collect(r.heap, Live(students', registered_students',
                                        tasks', last'))

\* await member.add_roles(...) returns or raises; when it returns the handler
\* runs on to register_student without another await
secret_add_roles(m, ok) ==
    LET student == tasks[m].student
        r == register_student(heap, registered_students, student, Member(m))
    IN  /\ Running
        /\ tasks[m].pc = "add_roles"
        /\ tasks' = [tasks EXCEPT ![m] = Idle]
        /\ UNCHANGED students
        /\ IF ok
           THEN /\ registered_students' = r.registered_students
                /\ last' = [Outcome("secret_add_roles", m, None, FALSE, student,
                                    IF r.raised THEN "raised" ELSE "registered")
                            EXCEPT !.role = TRUE]
                /\ heap' = collect(r.heap, Live(students', registered_students',
                                                tasks', last'))
           ELSE /\ last' = Outcome("secret_add_roles", m, None, FALSE, student,
                                   "error")
                /\ UNCHANGED registered_students
                /\ heap' = collect(heap, Live(students', registered_students',
                                              tasks', last'))

Next ==
    \/ \E n \in Numbers, v \in Variants, overwrite \in BOOLEAN :
          create_student(n, v, overwrite)
    \/ \E n \in Numbers : cmd_remove_student(n)
    \/ \E n \in Numbers : cmd_reset_student(n)
    \/ \E m \in MemberIds, s \in Tokens, env \in {"no_guild", "no_member", "ok"} :
          secret_check(m, s, env)
    \/ \E m \in MemberIds, ok \in BOOLEAN : secret_edit(m, ok)
    \/ \E m \in MemberIds, ok \in BOOLEAN : secret_add_roles(m, ok)

Spec == Init /\ [][Next]_vars

\* --------------------------------------------- the process and its snapshot
\* what the last step of the process itself (not a command) was
Lifecycle(op, result) == Outcome(op, None, None, FALSE, None, result)

\* the memory of a process that has ended: no manager, no coroutine
Forgotten ==
    /\ heap' = EmptyManager(Len(heap)).heap
    /\ students' = {}
    /\ registered_students' = {}
    /\ tasks' = [m \in MemberIds |-> Idle]
    /\ instances' = NoInstance
    /\ status_message' = StatusMessage
    /\ poll' = NoPoll

\* _autosave: asyncio.sleep(AUTOSAVE_INTERVAL) returns and save() runs. An
\* exception of save() leaves the `while 1` loop: the task ends.
autosave_tick(fault) ==
    LET r == to_disk(heap, students, registered_students, disk, fault)
    IN  /\ proc = "running" /\ autosave
        /\ disk' = r.disk
        /\ autosave' = ~r.raised
        /\ last' = Lifecycle("autosave", IF r.raised THEN "error" ELSE "written")
        /\ UNCHANGED <<students, registered_students, tasks, proc, instances,
                       status_message, poll>>
        /\ heap' = collect(heap, Live(students', registered_students', tasks', last'))

\* A faulty exit: the final save runs only while the autosave task is alive.
exit_saves_if_autosave_alive(fault) ==
    LET r == to_disk(heap, students, registered_students, disk, fault)
    IN  /\ proc = "running"
        /\ disk' = IF autosave THEN r.disk ELSE disk
        /\ proc' = "down"
        /\ autosave' = FALSE
        /\ last' = Lifecycle("exit", IF ~autosave THEN "skipped"
                                     ELSE IF r.raised THEN "error" ELSE "written")
        /\ Forgotten

\* The interpreter exits and runs the atexit hook, save().
exit(fault) ==
    LET r == to_disk(heap, students, registered_students, disk, fault)
    IN  /\ proc = "running"
        /\ disk' = r.disk
        /\ proc' = "down"
        /\ autosave' = FALSE
        /\ last' = Lifecycle("exit", IF r.raised THEN "error" ELSE "written")
        /\ Forgotten

\* The process is killed (SIGKILL, power loss): no hook runs. in_save says
\* whether it dies inside to_disk, between open(fname, 'wb+') and the end of
\* pickle.dump.
kill(in_save) ==
    /\ proc = "running"
    /\ disk' = IF in_save THEN Unloadable("truncated") ELSE disk
    /\ proc' = "down"
    /\ autosave' = FALSE
    /\ last' = Lifecycle("kill", IF in_save THEN "in_save" ELSE "ok")
    /\ Forgotten

\* While the bot is down the file is deleted, overwritten with bytes that
\* are no pickle, or left behind by the Students class of students.py.
file_replaced(file) ==
    /\ proc = "down"
    /\ disk # file
    /\ disk' = file
    /\ last' = Lifecycle("file_replaced", file.kind)
    /\ UNCHANGED <<heap, students, registered_students, tasks, proc, autosave,
                   instances, status_message, poll>>

\* ManageStudents.__init__: the autosave task is created and the manager is
\* loaded or created. If create_or_load raised, the cog would not be built
\* and the bot would not start.
start ==
    LET r == create_or_load(disk, Len(heap))
    IN  /\ proc = "down"
        /\ UNCHANGED <<disk, tasks, instances, status_message, poll>>
        /\ IF r.raised
           THEN /\ last' = Lifecycle("create_or_load", "raised")
                /\ UNCHANGED <<heap, students, registered_students, proc, autosave>>
           ELSE /\ heap' = r.heap
                /\ students' = r.students
                /\ registered_students' = r.registered_students
                /\ proc' = "running"
                /\ autosave' = TRUE
                /\ last' = Lifecycle("create_or_load",
                                     IF r.loaded THEN "loaded" ELSE "created")

Faults == {"none", "open", "write"}
Replacements == {NoFile, Unloadable("unreadable"), StudentsPickle}

\* The commands as in Next, with the inputs that do not bear on the file held
\* fixed: names that fit the nickname limit, commands sent from the guild by
\* one of its members, and the members of Registrants registering.
NextDisk ==
    \/ \E n \in Numbers, overwrite \in BOOLEAN : create_student(n, 1, overwrite)
    \/ \E n \in Numbers : cmd_remove_student(n)
    \/ \E n \in Numbers : cmd_reset_student(n)
    \/ \E m \in Registrants, s \in Tokens : secret_check(m, s, "ok")
    \/ \E m \in Registrants, ok \in BOOLEAN : secret_edit(m, ok)
    \/ \E m \in Registrants, ok \in BOOLEAN : secret_add_roles(m, ok)
    \/ \E fault \in Faults : autosave_tick(fault)
    \/ \E fault \in Faults : exit(fault)
    \/ \E in_save \in BOOLEAN : kill(in_save)
    \/ \E file \in Replacements : file_replaced(file)
    \/ start

SpecDisk == Init /\ [][NextDisk]_vars

\* ------------------------------------------------------------------ polls
\* Polls._summarize_participation for a poll in which member m voted: the
\* roster of Students.factory() is asked for the student of m.
summarize_participation(m) ==
    LET f == factory(instances, disk)
        found == student_by_member(f.instance.registered_students, Member(m))
    IN  /\ proc = "running"
        /\ instances' = f.instance
        /\ last' = Outcome("summarize_participation", m, None, FALSE, None,
                           IF f.raised THEN "error"
                           ELSE IF found.raised THEN "not_found" ELSE "found")
        /\ UNCHANGED <<students, registered_students, tasks, disk, proc, autosave,
                       status_message, poll>>
        /\ heap' = collect(heap, Live(students', registered_students', tasks', last'))

\* The commands and the steps of the process as in NextDisk, and the summary
\* of a poll.
NextPolls ==
    \/ \E n \in Numbers : create_student(n, 1, FALSE)
    \/ \E m \in Registrants, s \in Tokens : secret_check(m, s, "ok")
    \/ \E m \in Registrants, ok \in BOOLEAN : secret_edit(m, ok)
    \/ \E m \in Registrants, ok \in BOOLEAN : secret_add_roles(m, ok)
    \/ \E fault \in Faults : autosave_tick(fault)
    \/ \E fault \in Faults : exit(fault)
    \/ \E file \in Replacements : file_replaced(file)
    \/ start
    \/ \E m \in MemberIds : summarize_participation(m)

SpecPolls == Init /\ [][NextPolls]_vars

\* ------------------------------------------------------ import and export
\* What create_students_from_csv or export_students did: an Outcome, with the
\* attachment and the flag the command was given, the counters of
\* populate_from_csv_file, what it sent and returned, and the CSV file sent
\* to the author.
Report(op, fp, has_header, r, file) ==
    [op |-> op, arg |-> None, key |-> None, overwrite |-> FALSE,
     student |-> None, result |-> IF r.raised THEN "error" ELSE "ok",
     nick |-> NoName, role |-> FALSE,
     fp |-> fp, has_header |-> has_header,
     success_count |-> r.success_count, failed_count |-> r.failed_count,
     sent |-> r.sent, returned |-> r.returned, file |-> file]

\* create_students_from_csv with one attachment. The rows are read without
\* an await in between; when populate_from_csv_file raises, the command ends
\* there and no file is sent.
create_students_from_csv(fp, has_header) ==
    LET r == populate_from_csv_file(heap, students, fp, has_header, FALSE)
    IN  /\ Running
        /\ Len(r.heap) <= MaxStudents
        /\ students' = r.students
        /\ last' = Report("create_students_from_csv", fp, has_header, r,
                          IF r.raised THEN NoCsv
                          ELSE to_csv_file(r.heap, r.students))
        /\ UNCHANGED <<registered_students, tasks>>
        /\ heap' = collect(r.heap, Live(students', registered_students', tasks', last'))

export_students ==
    /\ Running
    /\ last' = Report("export_students", <<>>, FALSE,
                      [raised |-> FALSE, success_count |-> 0, failed_count |-> 0,
                       sent |-> NoMessage, returned |-> None],
                      to_csv_file(heap, students))
    /\ UNCHANGED <<students, registered_students, tasks>>
    /\ heap' = collect(heap, Live(students', registered_students', tasks', last'))

\* The commands that fill, empty and read the roster, with the inputs of
\* NextDisk, and the two CSV commands.
NextCsv ==
    \/ \E n \in Numbers, overwrite \in BOOLEAN : create_student(n, 1, overwrite)
    \/ \E n \in Numbers : cmd_remove_student(n)
    \/ \E m \in Registrants, s \in Tokens : secret_check(m, s, "ok")
    \/ \E m \in Registrants, ok \in BOOLEAN : secret_edit(m, ok)
    \/ \E m \in Registrants, ok \in BOOLEAN : secret_add_roles(m, ok)
    \/ \E fp \in CsvFiles, has_header \in BOOLEAN :
          create_students_from_csv(fp, has_header)
    \/ export_students

SpecCsv == Init /\ [][NextCsv]_vars

\* ------------------------------------------- checks before a command runs
\* config.GUILD_ID and the id of another guild the bot has been added to;
\* a command sent in a direct message has no guild (None)
GUILD_ID == 1
OtherGuild == 2
Guilds == {None, GUILD_ID, OtherGuild}

\* @commands.guild_only() and @commands.dm_only(): whether the check passes
guild_only(guild) == guild # None
dm_only(guild) == guild = None

\* A faulty ensure_guild_id: the id of the guild is not compared.
ensure_guild_id_any_guild(guild) == [raised |-> FALSE]

\* ensure_guild_id, the before_invoke hook of the bot: it runs after the
\* checks of the command and before its body, and raises for a guild that is
\* not GUILD_ID.
ensure_guild_id(guild) ==
    IF guild = None THEN [raised |-> FALSE]
    ELSE IF guild # GUILD_ID THEN [raised |-> TRUE]
    ELSE [raised |-> FALSE]

\* An Outcome with the guild the command was sent from
Invocation(guild, o) ==
    [op |-> o.op, arg |-> o.arg, key |-> o.key, overwrite |-> o.overwrite,
     student |-> o.student, result |-> o.result, nick |-> o.nick,
     role |-> o.role, guild |-> guild]

\* The command did not get to its body: a check failed ("check_failure") or
\* ensure_guild_id raised ("unauthorized").
Refused(guild, op, result) ==
    /\ last' = Invocation(guild, Outcome(op, None, None, FALSE, None, result))
    /\ UNCHANGED <<students, registered_students, tasks>>
    /\ heap' = collect(heap, Live(students', registered_students', tasks', last'))

\* How the invocation of a guild_only command sent from `guild` is refused,
\* or "" when its body runs
refusal(guild) ==
    IF ~guild_only(guild) THEN "check_failure"
    ELSE IF ensure_guild_id(guild).raised THEN "unauthorized"
    ELSE ""

\* !create_student sent from a guild or in a direct message
invoke_create_student(guild, n, overwrite) ==
    LET r == add_student(heap, students, StudentName(n, 1), n,
                         StudentEmail(n, 1), overwrite)
    IN  /\ Running
        /\ IF refusal(guild) # "" THEN Refused(guild, "create_student", refusal(guild))
           ELSE /\ r.raised \/ Len(heap) < MaxStudents
                /\ students' = r.students
                /\ last' = Invocation(guild,
                              Outcome("create_student", n, None, overwrite,
                                      r.student, IF r.raised THEN "error" ELSE "ok"))
                /\ UNCHANGED <<registered_students, tasks>>
                /\ heap' = collect(r.heap, Live(students', registered_students',
                                                tasks', last'))

\* !remove_student sent from a guild or in a direct message
invoke_remove_student(guild, n) ==
    LET r == remove_student(heap, students, registered_students, n)
    IN  /\ Running
        /\ IF refusal(guild) # "" THEN Refused(guild, "remove_student", refusal(guild))
           ELSE /\ students' = r.students
                /\ registered_students' = r.registered_students
                /\ last' = Invocation(guild,
                              Outcome("remove_student", n, None, FALSE,
                                      r.student, IF r.raised THEN "error" ELSE "ok"))
                /\ UNCHANGED tasks
                /\ heap' = collect(heap, Live(students', registered_students',
                                              tasks', last'))

\* !secret sent from a guild or in a direct message, up to its first await
\* (the bot is in its guild and the author is a member of it)
invoke_secret(guild, m, your_secret) ==
    LET found == student_by_secret(students, your_secret)
        student == found.student
        name == heap[student].name
        short == IF Len(name) > max_name_len
                 THEN SubSeq(name, 1, max_name_len) ELSE name
    IN  /\ Running
        /\ tasks[m].pc = "idle"
        /\ IF ~dm_only(guild) THEN Refused(guild, "secret", "check_failure")
           ELSE IF ensure_guild_id(guild).raised
           THEN Refused(guild, "secret", "unauthorized")
           ELSE IF found.raised
           THEN /\ last' = Invocation(guild, Outcome("secret", m, your_secret,
                                          FALSE, None, "incorrect_secret"))
                /\ UNCHANGED <<students, registered_students, tasks>>
                /\ heap' = collect(heap, Live(students', registered_students',
                                              tasks', last'))
           ELSE IF heap[student].is_registered
           THEN /\ last' = Invocation(guild, Outcome("secret", m, your_secret,
                                          FALSE, None, "already_registered"))
                /\ UNCHANGED <<students, registered_students, tasks>>
                /\ heap' = collect(heap, Live(students', registered_students',
                                              tasks', last'))
           ELSE /\ tasks' = [tasks EXCEPT ![m] =
                        [pc |-> "edit", student |-> student, name |-> short]]
                /\ last' = Invocation(guild, Outcome("secret", m, your_secret,
                                          FALSE, student, "checked"))
                /\ UNCHANGED <<students, registered_students>>
                /\ heap' = collect(heap, Live(students', registered_students',
                                              tasks', last'))

NextGuild ==
    \/ \E guild \in Guilds, n \in Numbers, overwrite \in BOOLEAN :
          invoke_create_student(guild, n, overwrite)
    \/ \E guild \in Guilds, n \in Numbers : invoke_remove_student(guild, n)
    \/ \E guild \in Guilds, m \in Registrants, s \in Tokens :
          invoke_secret(guild, m, s)
    \/ \E m \in Registrants, ok \in BOOLEAN : secret_edit(m, ok)
    \/ \E m \in Registrants, ok \in BOOLEAN : secret_add_roles(m, ok)

SpecGuild == Init /\ [][NextGuild]_vars

\* ------------------------------------------------------- status messages
\* A step of the StatusMessage cog leaves the roster, the file and the poll
StatusStep ==
    /\ proc = "running"
    /\ UNCHANGED <<heap, students, registered_students, tasks, disk, proc,
                   autosave, instances, poll>>

StatusOutcome(op, arg, result) == [op |-> op, arg |-> arg, result |-> result]

\* StatusMessage._set_status called by coroutine t, up to its await of
\* change_presence; `choice` is what random.choice returns
set_status_(sm, t, status, choice) ==
    IF status = NoStatus
    THEN [sm EXCEPT !.auto_change_status = TRUE, !.pending[t] = choice]
    ELSE [sm EXCEPT !.auto_change_status = FALSE, !.pending[t] = status]

\* _auto_change_status: asyncio.sleep(STATUS_CHANGE_WAIT) returns
auto_change_status_tick(choice) ==
    LET t == "_auto_change_status"
    IN  /\ StatusStep
        /\ status_message.pending[t] = NoStatus
        /\ IF status_message.auto_change_status
           THEN /\ status_message' = set_status_(status_message, t, NoStatus, choice)
                /\ last' = StatusOutcome(t, NoStatus, choice)
           ELSE /\ UNCHANGED status_message
                /\ last' = StatusOutcome(t, NoStatus, "skipped")

\* on_ready: the bot has connected, or connected again
on_ready(choice) ==
    LET t == "on_ready"
    IN  /\ StatusStep
        /\ status_message.pending[t] = NoStatus
        /\ status_message' = set_status_(status_message, t, NoStatus, choice)
        /\ last' = StatusOutcome(t, NoStatus, choice)

\* !set_status [status] sent by the owner of the bot
set_status(status, choice) ==
    LET t == "set_status"
    IN  /\ StatusStep
        /\ status_message.pending[t] = NoStatus
        /\ status_message' = set_status_(status_message, t, status, choice)
        /\ last' = StatusOutcome(t, status, status_message'.pending[t])

\* the change_presence awaited by coroutine t returns
change_presence(t) ==
    /\ StatusStep
    /\ status_message.pending[t] # NoStatus
    /\ status_message' = [status_message EXCEPT
                            !.presence = status_message.pending[t],
                            !.pending[t] = NoStatus]
    /\ last' = StatusOutcome("change_presence", t, status_message.pending[t])

NextStatus ==
    \/ \E choice \in STATUS_MESSAGES : auto_change_status_tick(choice)
    \/ \E choice \in STATUS_MESSAGES : on_ready(choice)
    \/ \E status \in ExplicitStatuses \cup {NoStatus}, choice \in STATUS_MESSAGES :
          set_status(status, choice)
    \/ \E t \in StatusTasks : change_presence(t)

SpecStatus == Init /\ [][NextStatus]_vars

\* -------------------------------------------------------- votes of a poll
\* A step of a poll leaves the roster, the file and the status
PollStep ==
    /\ proc = "running"
    /\ UNCHANGED <<heap, students, registered_students, tasks, disk, proc,
                   autosave, instances, status_message>>

PollOutcome(op, arg, result, winner, votes) ==
    [op |-> op, arg |-> arg, result |-> result, winner |-> winner, votes |-> votes]

\* _setup_poll: the poll message is sent and the bot reacts to it with
\* every option
setup_poll ==
    /\ PollStep
    /\ ~poll.open
    /\ poll' = [open |-> TRUE,
                reactions |-> [i \in 1..Len(Emojis) |->
                                 IF Emojis[i] \in options THEN {BotUser} ELSE {}]]
    /\ last' = PollOutcome("poll", None, "open", "", 0)

\* a user reacts to the poll message with an emoji, or takes a reaction back
add_reaction(user, i) ==
    /\ PollStep
    /\ poll.open
    /\ user \notin poll.reactions[i]
    /\ poll' = [poll EXCEPT !.reactions[i] = @ \cup {user}]
    /\ last' = PollOutcome("add_reaction", user, Emojis[i], "", 0)

remove_reaction(user, i) ==
    /\ PollStep
    /\ poll.open
    /\ user \in poll.reactions[i]
    /\ poll' = [poll EXCEPT !.reactions[i] = @ \ {user}]
    /\ last' = PollOutcome("remove_reaction", user, Emojis[i], "", 0)

\* _finish_poll: results[react.emoji] = react.count - 1 for every reaction
\* the message carries
results(reactions) ==
    [i \in {j \in 1..Len(Emojis) : reactions[j] # {}} |->
        Cardinality(reactions[i]) - 1]

\* max(results, key=results.get): the first key, in the order of the
\* reactions, that has the largest value
max_key(res) ==
    CHOOSE i \in DOMAIN res :
        /\ \A j \in DOMAIN res : res[j] <= res[i]
        /\ \A j \in DOMAIN res : j < i => res[j] < res[i]

\* _finish_poll: what is announced for the reactions fetched
announce(reactions) ==
    LET res == results(reactions)
        unable == [result |-> "unable", winner |-> "", votes |-> 0]
    IN  IF DOMAIN res = {} THEN unable
        ELSE LET winner == max_key(res)
             IN  IF res[winner] = 0 THEN unable
                 ELSE [result |-> "won", winner |-> Emojis[winner],
                       votes |-> res[winner]]

\* the timeout of `poll` has passed: _finish_poll
finish_poll ==
    LET a == announce(poll.reactions)
    IN  /\ PollStep
        /\ poll.open
        /\ poll' = NoPoll
        /\ last' = PollOutcome("finish_poll", None, a.result, a.winner, a.votes)

NextVotes ==
    \/ setup_poll
    \/ \E user \in Voters, i \in 1..Len(Emojis) : add_reaction(user, i)
    \/ \E user \in Voters, i \in 1..Len(Emojis) : remove_reaction(user, i)
    \/ finish_poll

SpecVotes == Init /\ [][NextVotes]_vars

\* ------------------------------------------------------------------ tabot
\* tabot's StudentInformation: it carries no Discord id, and two of them are
\* equal when name and number are
tabot_StudentInformation(name, number, email, k) ==
    [name |-> name, number |-> number, email |-> email,
     discord_name |-> NoName, is_registered |-> FALSE,
     secret |-> generate_new_secret(k)]

\* tabot's StudentManager.add_student. The key is a token never seen before,
\* so of the duplications of a bidict only that of the value can happen.
tabot_add_student(h, st, name, number, email, overwrite) ==
    LET o == Len(h) + 1
        h1 == Append(h, tabot_StudentInformation(name, number, email, o))
        equal(p) == h[p[2]].name = name /\ h[p[2]].number = number
    IN  IF overwrite
        THEN [raised |-> FALSE, heap |-> h1, student |-> o,
              students |-> {p \in st : ~equal(p)} \cup {<<h1[o].secret, o>>}]
        ELSE IF \E p \in st : equal(p)
        THEN [raised |-> TRUE, heap |-> h, student |-> None, students |-> st]
        ELSE [raised |-> FALSE, heap |-> h1, student |-> o,
              students |-> st \cup {<<h1[o].secret, o>>}]

\* str(number): its decimal digits; the character '#'
RECURSIVE str(_)
str(n) == IF n < 10 THEN <<n>> ELSE Append(str(n \div 10), n % 10)
Hash == 12

\* tabot's nickname: the name, cut to what 32 characters leave after '#' and
\* the number, then '#' and the number
tabot_nickname(name, number) ==
    LET tabot_max_name_len == 32 - (Len(str(number)) + 1)
        short == IF Len(name) > tabot_max_name_len
                 THEN SubSeq(name, 1, tabot_max_name_len) ELSE name
    IN  short \o <<Hash>> \o str(number)

\* tabot's !create_student
tabot_create_student(n, v, overwrite) ==
    LET r == tabot_add_student(heap, students, StudentName(n, v), n,
                               StudentEmail(n, v), overwrite)
    IN  /\ Running
        /\ r.raised \/ Len(heap) < MaxStudents
        /\ students' = r.students
        /\ last' = Outcome("create_student", n, None, overwrite, r.student,
                           IF r.raised THEN "error" ELSE "ok")
        /\ UNCHANGED <<registered_students, tasks>>
        /\ heap' = collect(r.heap, Live(students', registered_students', tasks', last'))

\* tabot's `secret` for a member of the named server, from its entry to the
\* await of member.edit: the record is marked registered here
tabot_secret(m, your_secret) ==
    LET found == student_by_secret(students, your_secret)
        student == found.student
    IN  /\ Running
        /\ tasks[m].pc = "idle"
        /\ UNCHANGED <<students, registered_students>>
        /\ IF found.raised
           THEN /\ last' = Outcome("secret", m, your_secret, FALSE, None,
                                   "incorrect_secret")
                /\ UNCHANGED tasks
                /\ heap' = collect(heap, Live(students', registered_students',
                                              tasks', last'))
           ELSE IF heap[student].is_registered
           THEN /\ last' = Outcome("secret", m, your_secret, FALSE, None,
                                   "already_registered")
                /\ UNCHANGED tasks
                /\ heap' = collect(heap, Live(students', registered_students',
                                              tasks', last'))
           ELSE /\ tasks' = [tasks EXCEPT ![m] =
                        [pc |-> "edit", student |-> student,
                         name |-> tabot_nickname(heap[student].name,
                                                 heap[student].number)]]
                /\ last' = Outcome("secret", m, your_secret, FALSE, student,
                                   "checked")
                /\ heap' = collect([heap EXCEPT
                                      ![student].discord_name = Member(m).name,
                                      ![student].is_registered = TRUE],
                                   Live(students', registered_students',
                                        tasks', last'))

\* tabot: await member.edit(nick=nickname) returns or raises
tabot_secret_edit(m, ok) ==
    /\ Running
    /\ tasks[m].pc = "edit"
    /\ IF ok
       THEN /\ tasks' = [tasks EXCEPT ![m].pc = "add_roles"]
            /\ last' = [Outcome("secret_edit", m, None, FALSE,
                                tasks[m].student, "ok")
                        EXCEPT !.nick = tasks[m].name]
       ELSE /\ tasks' = [tasks EXCEPT ![m] = Idle]
            /\ last' = Outcome("secret_edit", m, None, FALSE,
                               tasks[m].student, "error")
    /\ UNCHANGED <<students, registered_students>>
    /\ heap' = collect(heap, Live(students', registered_students', tasks', last'))

\* tabot: await member.add_roles(...) returns or raises
tabot_secret_add_roles(m, ok) ==
    /\ Running
    /\ tasks[m].pc = "add_roles"
    /\ tasks' = [tasks EXCEPT ![m] = Idle]
    /\ last' = IF ok
               THEN [Outcome("secret_add_roles", m, None, FALSE,
                             tasks[m].student, "registered")
                     EXCEPT !.role = TRUE]
               ELSE Outcome("secret_add_roles", m, None, FALSE,
                            tasks[m].student, "error")
    /\ UNCHANGED <<students, registered_students>>
    /\ heap' = collect(heap, Live(students', registered_students', tasks', last'))

NextTabot ==
    \/ \E n \in Numbers, v \in Variants, overwrite \in BOOLEAN :
          tabot_create_student(n, v, overwrite)
    \/ \E m \in MemberIds, s \in Tokens : tabot_secret(m, s)
    \/ \E m \in MemberIds, ok \in BOOLEAN : tabot_secret_edit(m, ok)
    \/ \E m \in MemberIds, ok \in BOOLEAN : tabot_secret_add_roles(m, ok)

SpecTabot == Init /\ [][NextTabot]_vars

\* ------------------------------------------------------------------ claims
\* The records the two bidicts hold, with their fields
RosterRecords(h, st, rs) == [o \in {p[2] : p \in st \cup rs} |-> h[o]]

\* students, registered_students and every record they hold are as before
RosterUnchanged ==
    /\ students' = students
    /\ registered_students' = registered_students
    /\ RosterRecords(heap', students', registered_students')
         = RosterRecords(heap, students, registered_students)

\* the step was a `secret` command that got as far as looking its secret up
SecretLookedUp(l) ==
    l.op = "secret" /\ l.result \notin {"no_guild", "no_member"}

\* the step ran register_student (add_roles returned, the role is granted)
RanRegister(l) == l.op = "secret_add_roles" /\ l.role

\* C1: when the `secret` command runs register_student for a member on a
\* record that is unregistered, the record is registered afterwards and
\* student_by_member of that member returns it; and a `secret` command given
\* the secret of a registered record ends as already-registered and changes
\* nothing.
C1_register_binds_then_refuses ==
    [][/\ (RanRegister(last') /\ ~heap[last'.student].is_registered)
            => /\ last'.result = "registered"
               /\ heap'[last'.student].is_registered
               /\ student_by_member(registered_students', Member(last'.arg))
                    = [raised |-> FALSE, student |-> last'.student]
       /\ (/\ SecretLookedUp(last')
           /\ bidict_has(students, last'.key)
           /\ heap[bidict_get(students, last'.key)].is_registered)
            => /\ last'.result = "already_registered"
               /\ RosterUnchanged
               /\ UNCHANGED tasks]_vars

\* C2: the Student role is granted, and register_student run, only for a
\* record that is still unregistered at that moment: of two `secret` commands
\* that interleave on one secret, the second is never granted the role.
C2_one_grant_per_secret ==
    [][RanRegister(last') => ~heap[last'.student].is_registered]_vars

\* C3: after reset_student on a registered record, the record is unregistered
\* and student_by_member of the member that was bound to it raises KeyError.
C3_reset_leaves_identity_index ==
    [][(/\ last'.op = "reset_student"
        /\ last'.result = "ok"
        /\ heap[last'.student].is_registered)
         => /\ ~heap'[last'.student].is_registered
            /\ student_by_member(registered_students',
                                 Member(heap[last'.student].discord_id)).raised]_vars

\* C4: right after reset_student the record can register again: its secret
\* still resolves to it, it is unregistered, and register_student succeeds for
\* every member, the one bound before or another, leaving the record
\* registered and returned by student_by_member of that member.
C4_reset_allows_reregistration ==
    (last.op = "reset_student" /\ last.result = "ok")
      => LET o == last.student
         IN  /\ student_by_secret(students, heap[o].secret)
                  = [raised |-> FALSE, student |-> o]
             /\ ~heap[o].is_registered
             /\ \A m \in MemberIds :
                  LET r == register_student(heap, registered_students, o, Member(m))
                  IN  /\ ~r.raised
                      /\ r.heap[o].is_registered
                      /\ student_by_member(r.registered_students, Member(m))
                           = [raised |-> FALSE, student |-> o]

\* C5: create_student with overwrite on a number whose record is registered
\* leaves the record of that number unregistered, and student_by_member of the
\* member that was bound to the old record raises KeyError.
C5_overwrite_discards_registration ==
    [][(/\ last'.op = "create_student"
        /\ last'.overwrite
        /\ inverse_has(students, heap, last'.arg)
        /\ heap[bidict_get(students,
                 inverse_get(students, heap, last'.arg))].is_registered)
         => LET old == bidict_get(students, inverse_get(students, heap, last'.arg))
            IN  /\ last'.result = "ok"
                /\ ~heap'[last'.student].is_registered
                /\ student_by_member(registered_students',
                                     Member(heap[old].discord_id)).raised]_vars

\* C6: create_student with overwrite on a number already in the roster
\* succeeds; afterwards students holds exactly one record of that number, the
\* new one, under a secret that was not a key before, and student_by_secret
\* of the old secret raises KeyError.
C6_overwrite_replaces ==
    [][(/\ last'.op = "create_student"
        /\ last'.overwrite
        /\ inverse_has(students, heap, last'.arg))
         => LET old_secret == inverse_get(students, heap, last'.arg)
                new == last'.student
            IN  /\ last'.result = "ok"
                /\ {p \in students' : heap'[p[2]].number = last'.arg}
                     = {<<heap'[new].secret, new>>}
                /\ ~bidict_has(students, heap'[new].secret)
                /\ student_by_secret(students', old_secret).raised]_vars

\* an overwrite has replaced a registered record: the identity index still
\* holds the old object of that number
C6_witness ==
    /\ last.op = "create_student" /\ last.overwrite /\ last.result = "ok"
    /\ \E p \in registered_students :
         /\ p[2] # last.student
         /\ heap[p[2]].number = heap[last.student].number

\* C7: create_student without overwrite on a number already in the roster
\* fails, and students, registered_students, every record in them and the
\* coroutines in flight are as before.
C7_duplicate_refused ==
    [][(/\ last'.op = "create_student"
        /\ ~last'.overwrite
        /\ inverse_has(students, heap, last'.arg))
         => /\ last'.result = "error"
            /\ RosterUnchanged
            /\ UNCHANGED tasks]_vars

\* a create without overwrite has been refused while a record of the roster
\* is registered
C7_witness ==
    /\ last.op = "create_student" /\ ~last.overwrite /\ last.result = "error"
    /\ \E p \in students : heap[p[2]].is_registered

\* C8: after a successful create_student, student_by_secret of the new
\* record's secret returns that record, its number is the number given, and
\* it is unregistered with no Discord identity.
C8_created_is_found_by_secret ==
    (last.op = "create_student" /\ last.result = "ok")
      => LET o == last.student
         IN  /\ student_by_secret(students, heap[o].secret)
                  = [raised |-> FALSE, student |-> o]
             /\ heap[o].number = last.arg
             /\ ~heap[o].is_registered
             /\ heap[o].discord_id = None

\* a second record has been created beside a first one
C8_witness ==
    /\ last.op = "create_student" /\ last.result = "ok" /\ ~last.overwrite
    /\ Cardinality(students) = 2

\* C9: a `secret` command whose secret is no key of students ends as
\* incorrect-secret: students, registered_students, their records and the
\* coroutines in flight are as before, so no member.edit or add_roles follows,
\* and the step sets no nickname and grants no role.
C9_unknown_secret_changes_nothing ==
    [][(SecretLookedUp(last') /\ ~bidict_has(students, last'.key))
         => /\ last'.result = "incorrect_secret"
            /\ RosterUnchanged
            /\ UNCHANGED tasks
            /\ last'.nick = NoName
            /\ ~last'.role]_vars

\* an unknown secret has been refused while the roster holds a record
C9_witness ==
    /\ last.op = "secret" /\ last.result = "incorrect_secret"
    /\ students # {}

\* C10: after remove_student returns the removed record, student_by_secret of
\* its secret raises KeyError, and so does student_by_member of the member
\* whose id the record carries.
C10_remove_clears_both_lookups ==
    (last.op = "remove_student" /\ last.result = "ok")
      => LET o == last.student
         IN  /\ student_by_secret(students, heap[o].secret).raised
             /\ heap[o].discord_id # None
                  => student_by_member(registered_students,
                                       Member(heap[o].discord_id)).raised

\* C11: remove_student and reset_student of a number that no record of
\* students carries fail, and students, registered_students, their records
\* and the coroutines in flight are as before.
C11_missing_number_refused ==
    [][(/\ last'.op \in {"remove_student", "reset_student"}
        /\ ~inverse_has(students, heap, last'.arg))
         => /\ last'.result = "error"
            /\ RosterUnchanged
            /\ UNCHANGED tasks]_vars

\* a remove of an absent number has been refused while the roster holds
\* another record
C11_witness ==
    /\ last.op = "remove_student" /\ last.result = "error"
    /\ students # {}

\* C12: reset_student leaves both bidicts as they are; the record it resets
\* keeps its name, number, email and secret and is still what
\* student_by_secret returns for that secret; every other record is as before.
C12_reset_frame ==
    [][(last'.op = "reset_student" /\ last'.result = "ok")
         => LET o == last'.student
            IN  /\ students' = students
                /\ registered_students' = registered_students
                /\ heap'[o].name = heap[o].name
                /\ heap'[o].number = heap[o].number
                /\ heap'[o].email = heap[o].email
                /\ heap'[o].secret = heap[o].secret
                /\ student_by_secret(students', heap[o].secret)
                     = [raised |-> FALSE, student |-> o]
                /\ \A p \in students \cup registered_students :
                     p[2] # o => heap'[p[2]] = heap[p[2]]]_vars

\* a registered record has been reset while the roster holds a second record
C12_witness ==
    /\ last.op = "reset_student" /\ last.result = "ok"
    /\ bidict_has(registered_students, 1)
    /\ bidict_get(registered_students, 1) = last.student
    /\ Cardinality(students) = 2

\* C13: every record student_by_member can return is registered and carries
\* the member id it is looked up by.
C13_identity_index_registered_only ==
    \A m \in MemberIds :
        LET r == student_by_member(registered_students, Member(m))
        IN  ~r.raised => /\ heap[r.student].is_registered
                         /\ heap[r.student].discord_id = m

\* C14: for every StudentInformation, discord_name and discord_id are set
\* exactly when is_registered is true.
C14_identity_iff_registered ==
    \A o \in 1..Len(heap) :
        /\ heap[o].is_registered <=> heap[o].discord_id # None
        /\ heap[o].is_registered <=> heap[o].discord_name # NoName

\* register_student has raised after student.register ran, and a record of
\* the roster has been reset
C14_witness ==
    /\ last.op = "secret_add_roles" /\ last.result = "raised"
    /\ heap[last.student].is_registered
    /\ \E p \in registered_students : ~heap[p[2]].is_registered

\* C15: no two items of students hold records of the same number.
C15_one_record_per_number ==
    \A p, q \in students :
        heap[p[2]].number = heap[q[2]].number => p = q

\* a create of a number in the roster has been refused while the roster holds
\* two records
C15_witness ==
    /\ last.op = "create_student" /\ last.result = "error"
    /\ Cardinality(students) = 2

\* C16: every item of registered_students holds an object that students
\* holds too, under that object's secret.
C16_identity_index_within_secret_index ==
    \A p \in registered_students : <<heap[p[2]].secret, p[2]>> \in students

\* C17: a step that runs register_student either ends with the record
\* registered and registered_students mapping the member id to it, or it
\* raises and leaves the record's fields and registered_students as before.
C17_register_all_or_nothing ==
    [][RanRegister(last')
         => LET o == last'.student
            IN  \/ /\ last'.result = "registered"
                   /\ heap'[o].is_registered
                   /\ heap'[o].discord_id = last'.arg
                   /\ <<last'.arg, o>> \in registered_students'
                \/ /\ last'.result = "raised"
                   /\ heap'[o] = heap[o]
                   /\ registered_students' = registered_students]_vars

\* What a roster holds, whatever the object ids: the records under their
\* secrets, the records under their member ids, and which secret and member
\* id lead to one and the same object.
Roster(h, st, rs) ==
    [students |-> {<<p[1], h[p[2]]>> : p \in st},
     registered_students |-> {<<p[1], h[p[2]]>> : p \in rs},
     shared |-> {<<x[1][1], x[2][1]>> : x \in {y \in st \X rs : y[1][2] = y[2][2]}}]

\* the roster a pickle file holds
Snapshot(file) == Roster(file.memo, file.students, file.registered_students)

\* the file is one that from_disk returns a StudentManager for
Loadable(file) == file.kind = "pickle" /\ file.type = "StudentManager"

\* C18: a step that runs to_disk (an autosave tick, the exit hook, or the
\* process being killed inside to_disk) leaves the file either as it was or
\* holding the complete pickle of the roster being saved.
C18_save_is_atomic ==
    [][last'.op \in {"autosave", "exit", "kill"}
        => \/ disk' = disk
           \/ /\ Loadable(disk')
              /\ Snapshot(disk') = Roster(heap, students, registered_students)]_vars

C20_startup_never_aborts ==
    [][(proc = "down" /\ last'.op = "create_or_load" /\ ~Loadable(disk))
        => /\ proc' = "running"
           /\ last'.result = "created"
           /\ students' = {} /\ registered_students' = {}]_vars

\* the process has started over a pickle of the Students class
C20_witness ==
    /\ last.op = "create_or_load" /\ last.result = "created"
    /\ proc = "running"
    /\ disk = StudentsPickle

\* the file does not hold the roster the running process has in memory
Unsaved ==
    ~(Loadable(disk) /\ Snapshot(disk) = Roster(heap, students, registered_students))

\* C21: while the process runs with a roster the file does not hold, the
\* autosave task is alive, so that the next tick of its timer saves it.
C21_autosave_keeps_saving == (proc = "running" /\ Unsaved) => autosave

\* C22: an autosave tick whose save raises leaves the autosave task alive.
C22_missed_save_not_fatal ==
    [][(last'.op = "autosave" /\ last'.result = "error") => autosave']_vars

\* C23: whenever the process exits, save runs, whether or not the autosave
\* task is still alive; unless the write itself fails, the file left behind
\* holds the roster the process had, with every change made to it.
C23_final_save_on_exit ==
    [][(last'.op = "exit" /\ last'.result # "error")
        => /\ Loadable(disk')
           /\ Snapshot(disk') = Roster(heap, students, registered_students)]_vars

\* a process has exited and left a snapshot with a registered record
C23_witness ==
    /\ last.op = "exit" /\ last.result = "written"
    /\ proc = "down"
    /\ disk.registered_students # {}
    /\ \E i \in 1..Len(disk.memo) : disk.memo[i].is_registered

\* C24: the running process writes the file only in a save; an autosave tick
\* runs between the steps of the command handlers and changes neither the
\* roster nor a coroutine in flight; a save that completes leaves the pickle
\* of the whole roster, whatever the file held before.
C24_single_writer ==
    [][/\ (proc = "running" /\ disk' # disk)
            => last'.op \in {"autosave", "exit", "kill"}
       /\ last'.op = "autosave" => (RosterUnchanged /\ tasks' = tasks)
       /\ (last'.op \in {"autosave", "exit"} /\ last'.result = "written")
            => /\ Loadable(disk')
               /\ Snapshot(disk') = Roster(heap, students, registered_students)]_vars

\* an autosave has replaced an earlier snapshot while a `secret` coroutine
\* was suspended
C24_witness ==
    /\ last.op = "autosave" /\ last.result = "written"
    /\ \E m \in MemberIds : tasks[m].pc # "idle"
    /\ disk.students # {}

\* the step ran create_students_from_csv
Imported(l) == l.op = "create_students_from_csv"

\* every row of the file has the four columns fname, lname, email, number
FourColumns(fp) == \A i \in 1..Len(fp) : Len(fp[i]) = 4

\* the numbers of the records of the roster
NumbersOf(h, st) == {h[p[2]].number : p \in st}

\* K: how many rows of a file are malformed or repeat a number that the
\* roster, or a row before them, has already
RECURSIVE Failures(_, _)
Failures(rows, taken) ==
    IF rows = <<>> THEN 0
    ELSE LET row == Head(rows)
             bad == \/ Len(row) # 4
                    \/ int(row[4]).raised
                    \/ int(row[4]).value \in taken
         IN  IF bad THEN 1 + Failures(Tail(rows), taken)
             ELSE Failures(Tail(rows), taken \cup {int(row[4]).value})

\* the caller can tell both counts: they are returned, or the one message
\* sent gives the number added and there was no failure to count
BothCountsAvailable(l) ==
    l.returned # None \/ (l.sent.text = "Added" /\ l.failed_count = 0)

\* C25: an import of N rows with four columns each, K of them with a number
\* that is no number or is taken, ends with success_count = N - K and
\* failed_count = K, with N - K records more in students, and with both
\* counts available to the caller.
C25_import_counts ==
    [][(Imported(last') /\ ~last'.has_header /\ FourColumns(last'.fp))
        => LET N == Len(last'.fp)
               K == Failures(last'.fp, NumbersOf(heap, students))
           IN  /\ last'.result = "ok"
               /\ last'.success_count = N - K
               /\ last'.failed_count = K
               /\ Cardinality(students') = Cardinality(students) + N - K
               /\ BothCountsAvailable(last')]_vars

\* C26: an import of a file with a row that has not four columns ends
\* normally, counts that row as a failure and processes every other row.
C26_bad_row_skipped ==
    [][(Imported(last') /\ ~last'.has_header /\ ~FourColumns(last'.fp))
        => LET N == Len(last'.fp)
               K == Failures(last'.fp, NumbersOf(heap, students))
           IN  /\ last'.result = "ok"
               /\ last'.failed_count = K
               /\ last'.success_count + last'.failed_count = N
               /\ Cardinality(students') = Cardinality(students) + N - K]_vars

\* C27: with has_header the import skips the first row and processes the
\* others as data rows; without it every row is processed as a data row.
C27_optional_header ==
    [][(Imported(last') /\ FourColumns(last'.fp)
            /\ (last'.has_header => last'.fp # <<>>))
        => LET rows == IF last'.has_header THEN Tail(last'.fp) ELSE last'.fp
           IN  /\ last'.result = "ok"
               /\ last'.success_count + last'.failed_count = Len(rows)
               /\ students' = import_rows(heap, students, rows, FALSE, 0, 0).students]_vars

\* C29: the file export_students sends has the header name, number, email,
\* discord_name, discord_id, secret and one row for each record of students,
\* with these six fields of the record.
C29_export_columns ==
    [][last'.op = "export_students"
        => LET f == last'.file
           IN  /\ f.header = <<"name", "number", "email", "discord_name",
                               "discord_id", "secret">>
               /\ Len(f.rows) = Cardinality(students)
               /\ \A p \in students : \E i \in 1..Len(f.rows) :
                     f.rows[i] = <<heap[p[2]].name, heap[p[2]].number,
                                   heap[p[2]].email, heap[p[2]].discord_name,
                                   heap[p[2]].discord_id, heap[p[2]].secret>>]_vars

\* C28: when a step of `secret` changes the member's nickname or grants the
\* role, the record is registered to that member and is in
\* registered_students under the member's id before the step.
C28_effects_after_registration ==
    [][(last'.op \in {"secret_edit", "secret_add_roles"}
            /\ (last'.nick # NoName \/ last'.role))
        => /\ heap[last'.student].is_registered
           /\ heap[last'.student].discord_id = last'.arg
           /\ <<last'.arg, last'.student>> \in registered_students]_vars

\* C30: when registered_students of the manager of ManageStudents holds a
\* student for a member, the poll summary finds a student for that member.
C30_polls_read_the_roster ==
    [][(/\ last'.op = "summarize_participation"
        /\ ~student_by_member(registered_students, Member(last'.arg)).raised)
        => last'.result = "found"]_vars

\* C31: when register_student has registered a record for a member, every
\* record of the roster that is registered to that member is the one
\* student_by_member returns for the member.
C31_registered_found_by_identity ==
    [][(RanRegister(last') /\ last'.result = "registered")
        => \A p \in students' :
              (heap'[p[2]].is_registered /\ heap'[p[2]].discord_id = last'.arg)
                => LET found == student_by_member(registered_students',
                                                  Member(last'.arg))
                   IN  ~found.raised /\ found.student = p[2]]_vars

\* C32: when `secret` runs on to register_student for a record whose number
\* remove_student has taken out of the roster in the meantime, the record is
\* found neither under its secret nor under a member id afterwards.
C32_remove_beats_inflight_registration ==
    [][(RanRegister(last')
            /\ ~inverse_has(students, heap, heap[last'.student].number))
        => /\ \A p \in students' : p[2] # last'.student
           /\ \A q \in registered_students' : q[2] # last'.student]_vars

\* the step was an await of `secret` that raised: member.edit or add_roles
SideEffectFailed(l) ==
    l.op \in {"secret_edit", "secret_add_roles"} /\ l.result = "error"

\* C33: when member.edit or member.add_roles raises in `secret`, the command
\* ends without register_student: both bidicts and every record are as they
\* were, and the member may send the secret again.
C33_failed_effect_registers_nothing ==
    [][SideEffectFailed(last')
        => /\ RosterUnchanged
           /\ heap'[last'.student] = heap[last'.student]
           /\ tasks'[last'.arg] = Idle]_vars

\* add_roles has raised for a record that is still in the roster under its
\* secret, unregistered
C33_witness ==
    /\ last.op = "secret_add_roles" /\ last.result = "error"
    /\ \E p \in students :
          /\ p[2] = last.student
          /\ ~heap[p[2]].is_registered
          /\ ~student_by_secret(students, p[1]).raised
    /\ \A q \in registered_students : q[2] # last.student

\* C34: when Singleton._instances holds no Students and the file is missing,
\* is no pickle, or is the pickle of another class, Students.factory returns
\* an empty Students.
C34_factory_falls_back ==
    [][(/\ last'.op = "summarize_participation"
        /\ ~instances.exists
        /\ ~(disk.kind = "pickle" /\ disk.type = "Students"))
        => /\ last'.result # "error"
           /\ instances' = EmptyStudents]_vars

\* the step was the invocation of a command, with the guild it came from
Invoked(l) == l.op \in {"create_student", "remove_student", "secret"}

\* C35: a command sent from a guild other than GUILD_ID does not get to its
\* body and changes neither the roster nor a coroutine; `secret` sent in a
\* direct message gets to its body.
C35_other_guild_refused ==
    [][Invoked(last')
        => /\ last'.guild \notin {None, GUILD_ID}
                => /\ last'.result \in {"unauthorized", "check_failure"}
                   /\ RosterUnchanged
                   /\ tasks' = tasks
           /\ (last'.op = "secret" /\ last'.guild = None)
                => last'.result \notin {"unauthorized", "check_failure"}]_vars

\* create_student sent from another guild was refused by ensure_guild_id
\* while the roster held a record
C35_witness ==
    /\ last.op = "create_student"
    /\ last.guild = OtherGuild
    /\ last.result = "unauthorized"
    /\ students # {}

\* C36: while the operator's explicit status stands (auto_change_status is
\* False), a tick of _auto_change_status or an on_ready event changes neither
\* the flag nor the status about to be shown.
C36_explicit_status_stands ==
    [][(last'.op \in {"_auto_change_status", "on_ready"}
        /\ ~status_message.auto_change_status)
        => status_message' = status_message]_vars

\* the votes of users other than the bot for the i-th emoji of the poll
\* that is finishing, and the largest such number over the options
NonBotVotes(i) == Cardinality(poll.reactions[i] \ {BotUser})
OptionIndexes == {i \in 1..Len(Emojis) : Emojis[i] \in options}
BestVotes ==
    CHOOSE n \in 0..MaxVoters :
        /\ \E i \in OptionIndexes : NonBotVotes(i) = n
        /\ \A i \in OptionIndexes : NonBotVotes(i) <= n

\* C37: the winner announced is an option with the largest number of votes
\* of users other than the bot, announced with that number, and no winner is
\* announced exactly when no such user voted for an option.
C37_winner_is_best_option ==
    [][last'.op = "finish_poll"
        => /\ (last'.result = "unable") <=> (BestVotes = 0)
           /\ last'.result = "won"
                => /\ last'.winner \in options
                   /\ last'.votes = BestVotes
                   /\ \E i \in OptionIndexes :
                         Emojis[i] = last'.winner /\ NonBotVotes(i) = BestVotes]_vars

\* C38: member.edit is called with the name of the record when that has at
\* most 32 characters and with its first 32 characters otherwise, and the
\* notice about the shortening is sent exactly for a longer name.
C38_nickname_at_most_32 ==
    [][/\ (last'.op = "secret_edit" /\ last'.result = "ok")
            => LET name == heap[last'.student].name
               IN  /\ Len(last'.nick) <= 32
                   /\ Len(name) <= 32 => last'.nick = name
                   /\ Len(name) > 32 => last'.nick = SubSeq(name, 1, 32)
       /\ (last'.op = "secret" /\ last'.result \in {"checked", "shortened"})
            => (last'.result = "shortened" <=> Len(heap[last'.student].name) > 32)]_vars

\* the nickname of a record with a longer name was set to its first 32
\* characters
C38_witness ==
    /\ last.op = "secret_edit"
    /\ last.result = "ok"
    /\ Len(heap[last.student].name) > 32
    /\ last.nick = SubSeq(heap[last.student].name, 1, 32)

\* C39: in tabot, after member.edit or member.add_roles has raised, the
\* record the secret named is not marked registered.
C39_tabot_failed_effect_leaves_unregistered ==
    [][SideEffectFailed(last') => ~heap'[last'.student].is_registered]_vars

====
